---- MODULE Spec2Model ----
(***************************************************************************)
(* Model of pysis/sugar.py: point_info and its two wrappers                *)
(* image_to_ground and ground_to_image.  One call is followed statement by *)
(* statement (pc); the external collaborators (pvl.load, isis.mappt,       *)
(* isis.campt, the temp file) are a fake tool that logs every invocation   *)
(* and answers deterministically from the coordinates it was handed, with  *)
(* nondeterministic success/failure and per-point Error fields.            *)
(*                                                                         *)
(* Coordinates are integers counted in half pixels, so that the 0.5 pixel  *)
(* shift of the source is the integer HALF.                                *)
(***************************************************************************)
EXTENDS Integers, Sequences, FiniteSets, TLC

\* ---------------------------------------------------------------- bounds
MaxLen == 3

\* the .5 of np.add(x, .5) / -= .5, in half-pixel units
HALF == 1

\* whole-pixel coordinate values a caller supplies (in half-pixel units)
Coord == {2, 6}

\* ------------------------------------------------------------- strings
\* a str is a sequence of ASCII codes
STR_image == <<105, 109, 97, 103, 101>>
STR_ground == <<103, 114, 111, 117, 110, 100>>
STR_IMAGE == <<73, 77, 65, 71, 69>>
STR_Ground == <<71, 114, 111, 117, 110, 100>>
STR_space == <<115, 112, 97, 99, 101>>

PointTypeArgs == {STR_image, STR_ground, STR_IMAGE, STR_Ground, STR_space}

LowerIdentity(s) == s

\* str.lower(): A..Z -> a..z, everything else unchanged
Lower(s) == [k \in DOMAIN s |-> IF s[k] \in 65..90 THEN s[k] + 32 ELSE s[k]]

\* the set literal {"image", "ground"} of the validity test
ValidTypes == {STR_image, STR_ground}

\* ------------------------------------------------------------- values
NULL == "None"

\* a Python value that is either a Number or a sequence of Numbers
Num(n) == [isnum |-> TRUE, s |-> <<n>>]
List(s) == [isnum |-> FALSE, s |-> s]

SeqsUpTo(n) == UNION {[1..k -> Coord] : k \in 0..n}

ArgValues == {Num(n) : n \in Coord} \cup {List(s) : s \in SeqsUpTo(MaxLen)}

\* np.add(v, .5): elementwise on a sequence, plain on a Number
NpAdd(v, d) == [isnum |-> v.isnum, s |-> [k \in DOMAIN v.s |-> v.s[k] + d]]

Min(a, b) == IF a <= b THEN a ELSE b

ZipDropLast(a, b) == [k \in 1..(Min(Len(a), Len(b)) - 1) |-> <<a[k], b[k]>>]

\* zip(a, b) of two sequences: pairs up to the shorter one
Zip(a, b) == [k \in 1..Min(Len(a), Len(b)) |-> <<a[k], b[k]>>]

\* --------------------------------------------------------- the fake tool
\* the camera of the fake tool: lon = sample + 20, lat = line + 10
\* mappt/campt answer for an image point (sample, line)
ImageAnswer(sample, line, err) ==
  [Sample |-> sample, Line |-> line, Lat |-> line + 10, Lon |-> sample + 20,
   Error |-> err]

\* mappt/campt answer for a ground point (longitude, latitude)
GroundAnswer(lon, lat, err) ==
  [Sample |-> lon - 20, Line |-> lat - 10, Lat |-> lat, Lon |-> lon,
   Error |-> err]

\* isis.mappt is called with named arguments: sample=x, line=y or longitude=x, latitude=y
MapptAnswer(type, p) ==
  IF type = STR_ground THEN GroundAnswer(p[1], p[2], NULL)
  ELSE ImageAnswer(p[1], p[2], NULL)

\* isis.campt reads the columns of a coordlist line: (sample, line) for
\* coordtype image, (latitude, longitude) for coordtype ground
CamptAnswer(type, ln, err) ==
  IF type = STR_ground THEN GroundAnswer(ln[2], ln[1], err)
  ELSE ImageAnswer(ln[1], ln[2], err)

ErrValues == {NULL, "err"}

VARIABLES pc, entry, mapping, arg_x, arg_y, arg_type, units,
          point_type, x, y, pvlres, dictres, f, res, out,
          nLoad, nTemp, calls, events

vars == <<pc, entry, mapping, arg_x, arg_y, arg_type, units,
          point_type, x, y, pvlres, dictres, f, res, out,
          nLoad, nTemp, calls, events>>

NoFile == [state |-> "none", buffer |-> <<>>, disk |-> <<>>]

\* how point_info ends: kind is "raise" (exc, with the ProcessError's stdout),
\* "None" (a bare return), "mapping" (one dict, items[1]) or "list" (items)
Pending == [kind |-> "pending", items |-> <<>>, exc |-> NULL, stdout |-> <<>>]
Raise(e) == [kind |-> "raise", items |-> <<>>, exc |-> e, stdout |-> <<>>]
RaiseProcessError(blocks) ==
  [kind |-> "raise", items |-> <<>>, exc |-> "ProcessError", stdout |-> blocks]
ReturnNone == [kind |-> "None", items |-> <<>>, exc |-> NULL, stdout |-> <<>>]
ReturnMapping(m) == [kind |-> "mapping", items |-> <<m>>, exc |-> NULL, stdout |-> <<>>]
ReturnList(l) == [kind |-> "list", items |-> l, exc |-> NULL, stdout |-> <<>>]

\* what reaches the caller of the entry point: point_info's own outcome, or
\* for the wrappers "scalars" (a[1], b[1]), "arrays" (a, b) or "raise" (exc)
NoOut == [kind |-> "pending", a |-> <<>>, b |-> <<>>, exc |-> NULL, items |-> <<>>]

Entries == {"point_info", "image_to_ground", "ground_to_image"}

Init ==
  /\ pc = "idle"
  /\ entry = "point_info"
  /\ mapping = FALSE
  /\ arg_x = Num(2)
  /\ arg_y = Num(2)
  /\ arg_type = STR_image
  /\ units = FALSE
  /\ point_type = STR_image
  /\ x = Num(2)
  /\ y = Num(2)
  /\ pvlres = <<>>
  /\ dictres = <<>>
  /\ f = NoFile
  /\ res = Pending
  /\ out = NoOut
  /\ nLoad = 0
  /\ nTemp = 0
  /\ calls = <<>>
  /\ events = <<>>

\* the point_type a caller's entry point passes to point_info
TypeArgsOf(e) ==
  IF e = "image_to_ground" THEN {STR_image}
  ELSE IF e = "ground_to_image" THEN {STR_ground}
  ELSE PointTypeArgs

\* a caller enters point_info, image_to_ground or ground_to_image
Call ==
  /\ pc = "idle"
  /\ \E e \in Entries, xx \in ArgValues, yy \in ArgValues, m \in BOOLEAN, u \in BOOLEAN :
       \E pt \in TypeArgsOf(e) :
         /\ (u => e = "image_to_ground")
         /\ entry' = e
         /\ arg_x' = xx
         /\ arg_y' = yy
         /\ arg_type' = pt
         /\ mapping' = m
         /\ units' = u
         /\ point_type' = pt
         /\ x' = xx
         /\ y' = yy
  /\ pc' = "validate"
  /\ pvlres' = <<>>
  /\ dictres' = <<>>
  /\ f' = NoFile
  /\ res' = Pending
  /\ out' = NoOut
  /\ nLoad' = 0
  /\ nTemp' = 0
  /\ calls' = <<>>
  /\ events' = <<>>

\* point_type = point_type.lower(); if point_type not in {...}: raise Exception
Validate ==
  /\ pc = "validate"
  /\ point_type' = Lower(point_type)
  /\ IF Lower(point_type) \notin ValidTypes
       THEN /\ res' = Raise("Exception")
            /\ pc' = "ret"
       ELSE /\ res' = res
            /\ pc' = "normalize"
  /\ UNCHANGED <<entry, mapping, arg_x, arg_y, arg_type, units, x, y, pvlres,
                 dictres, f, out, nLoad, nTemp, calls, events>>

\* if both are Numbers wrap them in lists; for "image" add .5 to x and to y
Normalize ==
  /\ pc = "normalize"
  /\ LET both == x.isnum /\ y.isnum
         wx == IF both THEN List(x.s) ELSE x
         wy == IF both THEN List(y.s) ELSE y
     IN IF point_type = STR_image
          THEN x' = NpAdd(wx, HALF) /\ y' = NpAdd(wy, HALF)
          ELSE x' = wx /\ y' = wy
  /\ pc' = "load"
  /\ UNCHANGED <<entry, mapping, arg_x, arg_y, arg_type, units, point_type, pvlres,
                 dictres, f, res, out, nLoad, nTemp, calls, events>>

\* pvl.load(cube_path).get("IsisCube").get("Mapping") chooses the branch
LoadCube ==
  /\ pc = "load"
  /\ nLoad' = nLoad + 1
  /\ pc' = IF mapping THEN "mappt" ELSE "tmp_create"
  /\ UNCHANGED <<entry, mapping, arg_x, arg_y, arg_type, units, point_type, x, y,
                 pvlres, dictres, f, res, out, nTemp, calls, events>>

\* zip() needs two iterables: a Number left unwrapped is not one
Iterable == ~x.isnum /\ ~y.isnum

ShapeAlwaysList(d) == ReturnList(d)

\* if len(dictres) == 1: dictres = dictres[0]
Shape(d) == IF Len(d) = 1 THEN ReturnMapping(d[1]) ELSE ReturnList(d)

\* projected branch, "for x,y in zip(x,y)" over a Number: TypeError
MapptZipError ==
  /\ pc = "mappt"
  /\ ~Iterable
  /\ res' = Raise("TypeError")
  /\ pc' = "ret"
  /\ UNCHANGED <<entry, mapping, arg_x, arg_y, arg_type, units, point_type, x, y,
                 pvlres, dictres, f, out, nLoad, nTemp, calls, events>>

\* projected branch, one iteration of the loop: isis.mappt for the next point;
\* a ProcessError is printed and the function returns None
MapptCall ==
  /\ pc = "mappt"
  /\ Iterable
  /\ Len(pvlres) < Len(Zip(x.s, y.s))
  /\ LET p == Zip(x.s, y.s)[Len(pvlres) + 1] IN
       \E ok \in BOOLEAN :
         /\ calls' = Append(calls, [tool |-> "mappt", type |-> point_type, p |-> p,
                                    exists |-> FALSE, seen |-> <<>>, ok |-> ok])
         /\ IF ok
              THEN /\ pvlres' = Append(pvlres, MapptAnswer(point_type, p))
                   /\ res' = res
                   /\ pc' = "mappt"
              ELSE /\ pvlres' = pvlres
                   /\ res' = ReturnNone
                   /\ pc' = "ret"
  /\ UNCHANGED <<entry, mapping, arg_x, arg_y, arg_type, units, point_type, x, y,
                 dictres, f, out, nLoad, nTemp, events>>

\* projected branch after the loop: parse every answer's "Results" (pvl.loads
\* may reject an answer, if there is one), shape, return
ProjShape ==
  /\ pc = "mappt"
  /\ Iterable
  /\ Len(pvlres) = Len(Zip(x.s, y.s))
  /\ \E parsed \in {TRUE} \cup {FALSE : k \in DOMAIN pvlres} :
       IF parsed
         THEN dictres' = pvlres /\ res' = Shape(pvlres)
         ELSE dictres' = dictres /\ res' = Raise("ParseError")
  /\ pc' = "ret"
  /\ UNCHANGED <<entry, mapping, arg_x, arg_y, arg_type, units, point_type, x, y,
                 pvlres, f, out, nLoad, nTemp, calls, events>>

\* with tempfile.NamedTemporaryFile("w+") as f
TmpCreate ==
  /\ pc = "tmp_create"
  /\ f' = [state |-> "open", buffer |-> <<>>, disk |-> <<>>]
  /\ nTemp' = nTemp + 1
  /\ events' = Append(events, "create")
  /\ pc' = "tmp_write"
  /\ UNCHANGED <<entry, mapping, arg_x, arg_y, arg_type, units, point_type, x, y,
                 pvlres, dictres, res, out, nLoad, calls>>

CoordLinesNoSwap(type, xv, yv) == Zip(xv, yv)

\* the lines "{}, {}".format(xval, yval) of the coordlist, as column pairs,
\* after "x,y = y,x" for ground
CoordLines(type, xv, yv) == IF type = STR_ground THEN Zip(yv, xv) ELSE Zip(xv, yv)

\* swap for ground, then f.write("\n".join(...)); zip over a Number: TypeError
TmpWrite ==
  /\ pc = "tmp_write"
  /\ x' = IF point_type = STR_ground THEN y ELSE x
  /\ y' = IF point_type = STR_ground THEN x ELSE y
  /\ IF Iterable
       THEN /\ f' = [f EXCEPT !.buffer = CoordLines(point_type, x.s, y.s)]
            /\ events' = Append(events, "write")
            /\ res' = res
            /\ pc' = "tmp_flush"
       ELSE /\ f' = f
            /\ events' = events
            /\ res' = Raise("TypeError")
            /\ pc' = "tmp_exit"
  /\ UNCHANGED <<entry, mapping, arg_x, arg_y, arg_type, units, point_type,
                 pvlres, dictres, out, nLoad, nTemp, calls>>

\* f.flush()
TmpFlush ==
  /\ pc = "tmp_flush"
  /\ f' = [f EXCEPT !.disk = f.buffer]
  /\ events' = Append(events, "flush")
  /\ pc' = "campt"
  /\ UNCHANGED <<entry, mapping, arg_x, arg_y, arg_type, units, point_type, x, y,
                 pvlres, dictres, res, out, nLoad, nTemp, calls>>

\* isis.campt(coordlist=f.name, ...): the tool reads the file by path and
\* answers one block per line; a ProcessError is warned about and the
\* function returns None
Campt ==
  /\ pc = "campt"
  /\ \E ok \in BOOLEAN, errs \in [DOMAIN f.disk -> ErrValues] :
       /\ calls' = Append(calls, [tool |-> "campt", type |-> point_type, p |-> <<>>,
                                  exists |-> (f.state = "open"), seen |-> f.disk,
                                  ok |-> ok])
       /\ IF ok
            THEN /\ pvlres' = [k \in DOMAIN f.disk |->
                                 CamptAnswer(point_type, f.disk[k], errs[k])]
                 /\ res' = res
                 /\ pc' = "parse"
            ELSE /\ pvlres' = pvlres
                 /\ res' = ReturnNone
                 /\ pc' = "tmp_exit"
  /\ events' = Append(events, "campt")
  /\ UNCHANGED <<entry, mapping, arg_x, arg_y, arg_type, units, point_type, x, y,
                 dictres, f, out, nLoad, nTemp>>

\* pvlres = pvl.loads(pvlres); dictres = []; if len(x) > 1 and len(y) > 1
Parse ==
  /\ pc = "parse"
  /\ \E parsed \in BOOLEAN :
       IF parsed
         THEN /\ res' = res
              /\ pc' = IF Len(x.s) > 1 /\ Len(y.s) > 1 THEN "blocks" ELSE "single"
         ELSE /\ res' = Raise("ParseError")
              /\ pc' = "tmp_exit"
  /\ dictres' = <<>>
  /\ UNCHANGED <<entry, mapping, arg_x, arg_y, arg_type, units, point_type, x, y,
                 pvlres, f, out, nLoad, nTemp, calls, events>>

NeverError(r) == FALSE

\* r['GroundPoint']['Error'] is not None
HasError(r) == r.Error # NULL

\* r["Sample"] -= .5; r["Line"] -= .5
Unshift(r) == [r EXCEPT !.Sample = @ - HALF, !.Line = @ - HALF]

\* one iteration of "for r in pvlres": raise on an Error, else unshift and append.
\* A block r is what the code reads from it: r['GroundPoint']['Error'] and
\* r[1]["Sample"], r[1]["Line"] are fields of the same GroundPoint group.
BlockStep ==
  /\ pc = "blocks"
  /\ Len(dictres) < Len(pvlres)
  /\ LET r == pvlres[Len(dictres) + 1] IN
       IF HasError(r)
         THEN /\ res' = RaiseProcessError(<<r>>)
              /\ dictres' = dictres
              /\ pc' = "tmp_exit"
         ELSE /\ res' = res
              /\ dictres' = Append(dictres, Unshift(r))
              /\ pc' = "blocks"
  /\ UNCHANGED <<entry, mapping, arg_x, arg_y, arg_type, units, point_type, x, y,
                 pvlres, f, out, nLoad, nTemp, calls, events>>

\* the loop over the blocks is exhausted: leave the with block, return dictres
BlocksDone ==
  /\ pc = "blocks"
  /\ Len(dictres) = Len(pvlres)
  /\ res' = ReturnList(dictres)
  /\ pc' = "tmp_exit"
  /\ UNCHANGED <<entry, mapping, arg_x, arg_y, arg_type, units, point_type, x, y,
                 pvlres, dictres, f, out, nLoad, nTemp, calls, events>>

\* the else branch: the response is the single block pvlres['GroundPoint']
Single ==
  /\ pc = "single"
  /\ IF Len(pvlres) = 0
       THEN res' = Raise("KeyError") /\ dictres' = dictres
       ELSE IF HasError(pvlres[1])
         THEN res' = RaiseProcessError(pvlres) /\ dictres' = dictres
         ELSE res' = ReturnMapping(Unshift(pvlres[1])) /\ dictres' = <<Unshift(pvlres[1])>>
  /\ pc' = "tmp_exit"
  /\ UNCHANGED <<entry, mapping, arg_x, arg_y, arg_type, units, point_type, x, y,
                 pvlres, f, out, nLoad, nTemp, calls, events>>

TmpExitLeak ==
  /\ pc = "tmp_exit"
  /\ f' = IF res.kind \in {"raise", "None"} THEN f ELSE [f EXCEPT !.state = "removed"]
  /\ events' = IF res.kind \in {"raise", "None"} THEN events ELSE Append(events, "remove")
  /\ pc' = "ret"
  /\ UNCHANGED <<entry, mapping, arg_x, arg_y, arg_type, units, point_type, x, y,
                 pvlres, dictres, res, out, nLoad, nTemp, calls>>

\* leaving the with block, by return or by exception, removes the file
TmpExit ==
  /\ pc = "tmp_exit"
  /\ f' = [f EXCEPT !.state = "removed"]
  /\ events' = Append(events, "remove")
  /\ pc' = "ret"
  /\ UNCHANGED <<entry, mapping, arg_x, arg_y, arg_type, units, point_type, x, y,
                 pvlres, dictres, res, out, nLoad, nTemp, calls>>

\* point_info called directly: its outcome is what the caller sees
PointInfoReturn ==
  /\ pc = "ret"
  /\ entry = "point_info"
  /\ out' = [kind |-> res.kind, a |-> <<>>, b |-> <<>>, exc |-> res.exc,
             items |-> res.items]
  /\ pc' = "done"
  /\ UNCHANGED <<entry, mapping, arg_x, arg_y, arg_type, units, point_type, x, y,
                 pvlres, dictres, f, res, nLoad, nTemp, calls, events>>

OutRaise(e) == [kind |-> "raise", a |-> <<>>, b |-> <<>>, exc |-> e, items |-> <<>>]
OutScalars(u, v) == [kind |-> "scalars", a |-> <<u>>, b |-> <<v>>, exc |-> NULL,
                     items |-> <<>>]
OutArrays(cols) == [kind |-> "arrays", a |-> cols[1], b |-> cols[2], exc |-> NULL,
                    items |-> <<>>]

NoTranspose(rows) == rows

\* np.asarray(rows).T for rows of two columns: the two columns
Transpose(rows) ==
  <<[k \in DOMAIN rows |-> rows[k][1]], [k \in DOMAIN rows |-> rows[k][2]]>>

\* "a, b = arr" unpacks only an array of exactly two rows
Unpacks(arr) == Len(arr) = 2

\* r[key].value when the field carries units, else (AttributeError) r[key]
FieldValue(v) == IF units THEN [value |-> v, units |-> "deg"].value ELSE v

\* image_to_ground after point_info returned or raised
ImageToGround ==
  /\ pc = "ret"
  /\ entry = "image_to_ground"
  /\ out' =
       IF res.kind = "raise" THEN OutRaise(res.exc)
       ELSE IF res.kind = "None" THEN OutRaise("TypeError")
       ELSE IF res.kind = "list"
         THEN LET rows == [k \in DOMAIN res.items |->
                             <<FieldValue(res.items[k].Lat), FieldValue(res.items[k].Lon)>>]
              IN IF Len(rows) > 0 /\ Unpacks(Transpose(rows))
                   THEN OutArrays(Transpose(rows))
                   ELSE OutRaise("ValueError")
       ELSE OutScalars(FieldValue(res.items[1].Lat), FieldValue(res.items[1].Lon))
  /\ pc' = "done"
  /\ UNCHANGED <<entry, mapping, arg_x, arg_y, arg_type, units, point_type, x, y,
                 pvlres, dictres, f, res, nLoad, nTemp, calls, events>>

\* ground_to_image after point_info returned or raised; any failure of the
\* extraction is turned into Exception(res)
GroundToImage ==
  /\ pc = "ret"
  /\ entry = "ground_to_image"
  /\ out' =
       IF res.kind = "raise" THEN OutRaise(res.exc)
       ELSE IF res.kind = "None" THEN OutRaise("Exception")
       ELSE IF res.kind = "list"
         THEN LET rows == [k \in DOMAIN res.items |->
                             <<res.items[k].Line, res.items[k].Sample>>]
              IN IF Len(rows) > 0 /\ Unpacks(Transpose(rows))
                   THEN OutArrays(Transpose(rows))
                   ELSE OutRaise("Exception")
       ELSE OutScalars(res.items[1].Line, res.items[1].Sample)
  /\ pc' = "done"
  /\ UNCHANGED <<entry, mapping, arg_x, arg_y, arg_type, units, point_type, x, y,
                 pvlres, dictres, f, res, nLoad, nTemp, calls, events>>

\* the call is over: nothing of it outlives it (the module keeps no state)
Finish ==
  /\ pc = "done"
  /\ pc' = "idle"
  /\ entry' = "point_info"
  /\ mapping' = FALSE
  /\ arg_x' = Num(2)
  /\ arg_y' = Num(2)
  /\ arg_type' = STR_image
  /\ units' = FALSE
  /\ point_type' = STR_image
  /\ x' = Num(2)
  /\ y' = Num(2)
  /\ pvlres' = <<>>
  /\ dictres' = <<>>
  /\ f' = NoFile
  /\ res' = Pending
  /\ out' = NoOut
  /\ nLoad' = 0
  /\ nTemp' = 0
  /\ calls' = <<>>
  /\ events' = <<>>

Next ==
  \/ Call
  \/ Validate
  \/ Normalize
  \/ LoadCube
  \/ MapptZipError
  \/ MapptCall
  \/ ProjShape
  \/ TmpCreate
  \/ TmpWrite
  \/ TmpFlush
  \/ Campt
  \/ Parse
  \/ BlockStep
  \/ BlocksDone
  \/ Single
  \/ TmpExit
  \/ PointInfoReturn
  \/ ImageToGround
  \/ GroundToImage
  \/ Finish

Spec == Init /\ [][Next]_vars

TypeOK ==
  /\ pc \in {"idle", "validate", "normalize", "load", "mappt", "tmp_create",
             "tmp_write", "tmp_flush", "campt", "parse", "blocks", "single",
             "tmp_exit", "ret", "done"}
  /\ entry \in Entries
  /\ nLoad \in 0..1
  /\ nTemp \in 0..1

\* ------------------------------------------------------------ properties
\* the call has ended inside point_info (returned or raised)
Ended == pc \in {"ret", "done"}

\* every casing of "image" and of "ground" a caller passes
ImageCasings == {STR_image, STR_IMAGE}
GroundCasings == {STR_ground, STR_Ground}

\* the caller asked for n points: a pair of Numbers, or two sequences of length n
WellFormed ==
  /\ arg_x.isnum = arg_y.isnum
  /\ Len(arg_x.s) = Len(arg_y.s)
  /\ arg_type \in ImageCasings \cup GroundCasings
NPoints == Len(arg_x.s)

\* what the tool is to be handed for the i-th input point, as (x, y)
Dispatched(i) ==
  IF arg_type \in ImageCasings
    THEN <<arg_x.s[i] + HALF, arg_y.s[i] + HALF>>
    ELSE <<arg_x.s[i], arg_y.s[i]>>

\* r is the result for the i-th input point: the latitude, longitude and
\* pixel the tool computes for that point (the pixel up to the half-pixel shift)
ResultFor(i, r) ==
  LET d == Dispatched(i)
      ans == IF arg_type \in ImageCasings THEN ImageAnswer(d[1], d[2], NULL)
             ELSE GroundAnswer(d[1], d[2], NULL)
  IN /\ r.Lat = ans.Lat
     /\ r.Lon = ans.Lon
     /\ r.Sample \in {ans.Sample, ans.Sample - HALF}
     /\ r.Line \in {ans.Line, ans.Line - HALF}

Succeeded == res.kind \in {"mapping", "list"}
ToolFailed == \E k \in DOMAIN calls : ~calls[k].ok

\* C1: a point_type that is no casing of "image"/"ground" makes the call fail
\* before any cube-metadata query, tool invocation or temp file; every casing
\* of "image" or "ground" is accepted and does not take that failure path
C1_InvalidTypeFailsFirst ==
  pc \notin {"idle", "validate"} =>
    /\ arg_type \notin ImageCasings \cup GroundCasings =>
         /\ Ended
         /\ res.kind = "raise" /\ res.exc = "Exception"
         /\ nLoad = 0 /\ calls = <<>> /\ nTemp = 0
    /\ arg_type \in ImageCasings \cup GroundCasings =>
         /\ ~(res.kind = "raise" /\ res.exc = "Exception")
         /\ point_type \in {STR_image, STR_ground}

C1_Witness ==
  pc = "done" /\ arg_type = STR_space /\ out.kind = "raise" /\ nLoad = 0

\* C2: on success, one requested point gives a single mapping, n > 1 points
\* give a sequence of n mappings, the i-th being the result for input point i
C2_ResultShape ==
  (Ended /\ WellFormed /\ Succeeded) =>
    /\ NPoints = 1 => res.kind = "mapping" /\ ResultFor(1, res.items[1])
    /\ NPoints > 1 =>
         /\ res.kind = "list"
         /\ Len(res.items) = NPoints
         /\ \A k \in 1..NPoints : ResultFor(k, res.items[k])

C2_Witness ==
  /\ pc = "done" /\ WellFormed /\ mapping
  /\ res.kind = "list" /\ Len(res.items) >= 2
  /\ res.items[1] # res.items[2]

\* C3: for an image-type call every returned Sample and Line is the value the
\* tool reported minus one half pixel
C3_PixelRoundTrip ==
  (Ended /\ WellFormed /\ Succeeded /\ arg_type \in ImageCasings) =>
    \A k \in DOMAIN res.items :
      /\ res.items[k].Sample = pvlres[k].Sample - HALF
      /\ res.items[k].Line = pvlres[k].Line - HALF

\* C4: when a tool invocation fails the caller gets a failure that identifies
\* the tool failure: neither a normal return nor an unrelated exception
C4_ToolFailureSurfaces ==
  (pc = "done" /\ ToolFailed) => (out.kind = "raise" /\ out.exc = "ProcessError")

C6_LengthMismatchFails ==
  (Ended /\ ~arg_x.isnum /\ ~arg_y.isnum /\ Len(arg_x.s) # Len(arg_y.s)) =>
    /\ res.kind = "raise"
    /\ nLoad = 0 /\ calls = <<>> /\ nTemp = 0

\* C7: projected: one mappt per point in input order, none after the first
\* failing one; unprojected: exactly one campt for the whole batch
C7_InvocationCount ==
  (WellFormed /\ pc \notin {"idle", "validate"}) =>
    /\ \A k \in DOMAIN calls : k < Len(calls) => calls[k].ok
    /\ mapping =>
         /\ Len(calls) <= NPoints
         /\ \A k \in DOMAIN calls :
              calls[k].tool = "mappt" /\ calls[k].p = Dispatched(k)
         /\ (Ended /\ ~ToolFailed) => Len(calls) = NPoints
    /\ ~mapping =>
         /\ \A k \in DOMAIN calls : calls[k].tool = "campt"
         /\ Len(calls) <= 1
         /\ Ended => Len(calls) = 1

C7_Witness ==
  /\ pc = "done" /\ WellFormed /\ mapping /\ NPoints = 3
  /\ Len(calls) = 2 /\ calls[1].ok /\ ~calls[2].ok

TempOrder == <<"create", "write", "flush", "campt">>

\* C8: unprojected: create, write, flush, campt, remove in that order; the
\* tool finds the file with everything written; the file is gone when the
\* call has ended, however it ended; projected: no temp file
C8_TempFileLifecycle ==
  /\ nTemp <= 1
  /\ mapping => (nTemp = 0 /\ f.state = "none" /\ events = <<>>)
  /\ \E k \in 0..Len(TempOrder) :
       \/ events = SubSeq(TempOrder, 1, k)
       \/ k >= 1 /\ events = Append(SubSeq(TempOrder, 1, k), "remove")
  /\ \A k \in DOMAIN calls :
       calls[k].tool = "campt" =>
         /\ calls[k].exists
         /\ calls[k].seen = f.buffer
         /\ WellFormed => Len(calls[k].seen) = NPoints
         /\ events[Len(events)] \in {"campt", "remove"}
  /\ Ended => f.state # "open"
  /\ (Ended /\ nTemp > 0) => (f.state = "removed" /\ events[Len(events)] = "remove")

C8_Witness ==
  /\ pc = "done" /\ ~mapping /\ ToolFailed
  /\ f.state = "removed"
  /\ events = Append(TempOrder, "remove")

\* the field pair a wrapper extracts from one result
WrapperFields(r) ==
  IF entry = "image_to_ground" THEN <<r.Lat, r.Lon>> ELSE <<r.Line, r.Sample>>

\* C9: the wrappers return two scalars for one point and two arrays of length
\* n for n > 1 points, the i-th entries being the fields of the i-th result
C9_WrapperCardinality ==
  ( /\ pc = "done" /\ WellFormed
    /\ entry \in {"image_to_ground", "ground_to_image"}
    /\ out.kind \notin {"raise"} ) =>
    /\ NPoints >= 1
    /\ NPoints = 1 =>
         /\ out.kind = "scalars"
         /\ <<out.a[1], out.b[1]>> = WrapperFields(res.items[1])
         /\ ResultFor(1, res.items[1])
    /\ NPoints > 1 =>
         /\ out.kind = "arrays"
         /\ Len(out.a) = NPoints /\ Len(out.b) = NPoints
         /\ \A k \in 1..NPoints :
              /\ <<out.a[k], out.b[k]>> = WrapperFields(res.items[k])
              /\ ResultFor(k, res.items[k])

C9_Witness ==
  /\ pc = "done" /\ WellFormed /\ entry = "ground_to_image"
  /\ out.kind = "arrays" /\ Len(out.a) >= 2
  /\ out.a[1] # out.a[2] /\ out.a[1] # out.b[1]

\* C10: the coordinate list campt is handed has one line per input point:
\* (x[i] + .5, y[i] + .5) for image, (y[i], x[i]) for ground
C10_CoordListContent ==
  WellFormed =>
    \A k \in DOMAIN calls :
      calls[k].tool = "campt" =>
        /\ Len(calls[k].seen) = NPoints
        /\ \A j \in 1..NPoints :
             calls[k].seen[j] =
               IF arg_type \in ImageCasings
                 THEN <<arg_x.s[j] + HALF, arg_y.s[j] + HALF>>
                 ELSE <<arg_y.s[j], arg_x.s[j]>>

C10_Witness ==
  /\ WellFormed /\ arg_type \in GroundCasings
  /\ Len(calls) = 1 /\ calls[1].tool = "campt"
  /\ Len(calls[1].seen) >= 2
  /\ calls[1].seen[1][1] # calls[1].seen[1][2]
====
